---- MODULE Spec2Model ----
(***************************************************************************)
(* CDCEnrichmentFunction.process of                                        *)
(* src/functions/cdc-enrichment/cdc-enrichment-function.py as a state      *)
(* machine: one invocation, one action per block of the method body, the   *)
(* try/except of lines 20 and 104 as the transfer to the Except action.    *)
(*                                                                         *)
(* Python and JSON values are tagged records, so that values of different  *)
(* types are never equal and every type test of the interpreter (.get      *)
(* exists only on dict, len() only on sized values, dict lookup needs a    *)
(* hashable key, "/" needs a number) is decided by the tag.  Strings are    *)
(* sequences of one-character strings.                                     *)
(***************************************************************************)
EXTENDS Integers, Sequences, FiniteSets, TLC

VARIABLES input, context, pc, message, enriched, op, source, exc, log, result

vars == <<input, context, pc, message, enriched, op, source, exc, log, result>>

---------------------------------------------------------------------------
(* Values *)

JNull == [t |-> "null"]
JBool(b) == [t |-> "bool", b |-> b]
JInt(n) == [t |-> "int", n |-> n]
JStr(s) == [t |-> "str", s |-> s]
JList(l) == [t |-> "list", l |-> l]
JObj(o) == [t |-> "obj", o |-> o]

\* A key that a mapping does not hold (used only to build the inputs).
Absent == [t |-> "absent"]
\* A local name that has not been assigned yet.
Unbound == [t |-> "unbound"]
\* Input text that json.loads rejects.
Malformed == [t |-> "malformed"]

EmptyDict == [k \in {} |-> JNull]

S_c == <<"c">>
S_u == <<"u">>
S_d == <<"d">>
S_r == <<"r">>
S_unknown == <<"u", "n", "k", "n", "o", "w", "n">>
S_CREATE == <<"C", "R", "E", "A", "T", "E">>
S_UPDATE == <<"U", "P", "D", "A", "T", "E">>
S_DELETE == <<"D", "E", "L", "E", "T", "E">>
S_READ == <<"R", "E", "A", "D">>
S_UNKNOWN == <<"U", "N", "K", "N", "O", "W", "N">>
S_true == <<"t", "r", "u", "e">>
S_cdc_enrichment == <<"c", "d", "c", "-", "e", "n", "r", "i", "c", "h", "m", "e", "n", "t">>
S_1_0 == <<"1", ".", "0">>

---------------------------------------------------------------------------
(* The interpreter's operations on values *)

\* Only dict has a .get method; on any other value the attribute access
\* raises AttributeError.
HasGet(v) == v.t = "obj"

\* dict.get(k, default)
DictGet(d, k, default) == IF k \in DOMAIN d.o THEN d.o[k] ELSE default

\* bool(v)
Truthy(v) ==
    CASE v.t = "null" -> FALSE
      [] v.t = "bool" -> v.b
      [] v.t = "int" -> v.n # 0
      [] v.t = "str" -> Len(v.s) > 0
      [] v.t = "list" -> Len(v.l) > 0
      [] v.t = "obj" -> DOMAIN v.o # {}

\* len(v) is defined on str, list and dict; TypeError otherwise.
HasLen(v) == v.t \in {"str", "list", "obj"}

PyLen(v) ==
    CASE v.t = "str" -> Len(v.s)
      [] v.t = "list" -> Len(v.l)
      [] v.t = "obj" -> Cardinality(DOMAIN v.o)

\* hash(v) is defined on None, bool, int and str; TypeError on list and dict.
Hashable(v) == v.t \notin {"list", "obj"}

\* str.split(sep) for a one-character sep: the segments between the
\* occurrences of sep, in order (one more segment than occurrences).
RECURSIVE Split(_, _)
Split(s, sep) ==
    IF \A i \in 1..Len(s) : s[i] # sep
    THEN <<s>>
    ELSE LET i == CHOOSE j \in 1..Len(s) :
                      s[j] = sep /\ \A k \in 1..(j - 1) : s[k] # sep
         IN <<SubSeq(s, 1, i - 1)>> \o Split(SubSeq(s, i + 1, Len(s)), sep)

Digit(n) == <<"0", "1", "2", "3", "4", "5", "6", "7", "8", "9">>[n + 1]

\* The decimal digits of a natural number.
RECURSIVE Decimal(_)
Decimal(n) == IF n < 10 THEN <<Digit(n)>> ELSE Decimal(n \div 10) \o <<Digit(n % 10)>>

\* str(v) for the values a message id takes here (int and str).
PyStr(v) ==
    CASE v.t = "str" -> v
      [] v.t = "int" -> JStr(Decimal(v.n))

\* The characters of the two string literals the method tests membership of.
Chars(k) ==
    CASE k = "email" -> <<"e", "m", "a", "i", "l">>
      [] k = "@" -> <<"@">>

IsSubstring(sub, s) ==
    \E i \in 0..(Len(s) - Len(sub)) : SubSeq(s, i + 1, i + Len(sub)) = sub

\* "k in v" for a str k: substring test on str, element test on list, key
\* test on dict; TypeError on None, bool and int.
HasContains(v) == v.t \in {"str", "list", "obj"}

In(k, v) ==
    CASE v.t = "str" -> IsSubstring(Chars(k), v.s)
      [] v.t = "list" -> \E i \in 1..Len(v.l) : v.l[i] = JStr(Chars(k))
      [] v.t = "obj" -> k \in DOMAIN v.o

\* "/" is defined on int and bool (a bool counts as 0 or 1).
IsNumber(v) == v.t \in {"int", "bool"}

NumValue(v) == IF v.t = "bool" THEN (IF v.b THEN 1 ELSE 0) ELSE v.n

---------------------------------------------------------------------------
(* Bounds of the model *)

\* datetime.fromtimestamp accepts seconds up to this bound and raises beyond.
MaxEpochSeconds == 3

\* Longest email string of the inputs.
MaxEmailLen == 3

\* Readings of the wall clock (datetime.utcnow) run from 0 to this bound.
MaxClock == 1

---------------------------------------------------------------------------
(* The context: each capability is absent, raises when called, or returns *)

CapAbsent == [c |-> "absent"]
CapRaises == [c |-> "raises"]
CapReturns(v) == [c |-> "returns", v |-> v]

\* hasattr(context, name)
HasAttr(ctx, name) == ctx[name].c # "absent"

\* The ISO-8601 text of an instant, identified by the instant in milliseconds.
IsoString(ms) == [t |-> "isostr", ms |-> ms]

\* datetime.fromtimestamp raises outside the range of the platform.
FromTimestampOk(ms) ==
    /\ ms <= MaxEpochSeconds * 1000
    /\ ms >= -(MaxEpochSeconds * 1000)

---------------------------------------------------------------------------
(* The enrichment groups *)

op_labels == (S_c :> S_CREATE) @@ (S_u :> S_UPDATE) @@ (S_d :> S_DELETE) @@ (S_r :> S_READ)

\* op_labels.get(op, "UNKNOWN"), for a hashable op
OpLabel(o) ==
    IF o.t = "str" /\ o.s \in DOMAIN op_labels THEN op_labels[o.s] ELSE S_UNKNOWN

\* op in ["c", "u", "d"]
IsMutation(o) == o \in {JStr(S_c), JStr(S_u), JStr(S_d)}

OperationGroup(o) ==
    JObj([code |-> o, label |-> JStr(OpLabel(o)), is_mutation |-> JBool(IsMutation(o))])

\* The guard as a test for None instead of a truth test.
TimestampsGuardNotNone(ts_ms) == ts_ms # JNull

\* if ts_ms:
TimestampsGuard(ts_ms) == Truthy(ts_ms)

TimestampsGroup(ts_ms, now) ==
    JObj([event_time_ms |-> ts_ms,
          event_time_iso |-> IsoString(NumValue(ts_ms)),
          processing_time_iso |-> IsoString(now)])

\* The snapshot flag as a truth test instead of a comparison.
IsSnapshotTruthy(src) == Truthy(DictGet(src, "snapshot", JNull))

\* source.get("snapshot") == "true"
IsSnapshot(src) == DictGet(src, "snapshot", JNull) = JStr(S_true)

SourceMetadataGroup(src) ==
    JObj([database |-> DictGet(src, "db", JNull),
          schema |-> DictGet(src, "schema", JNull),
          table |-> DictGet(src, "table", JNull),
          connector |-> DictGet(src, "connector", JNull),
          version |-> DictGet(src, "version", JNull),
          is_snapshot |-> JBool(IsSnapshot(src))])

\* len(after) if after else 0
FieldCount(after) == IF Truthy(after) THEN PyLen(after) ELSE 0

\* Completeness without the length test.
IsCompleteNotNone(after) == after # JNull

\* after is not None and len(after) > 0
IsComplete(after) == after # JNull /\ PyLen(after) > 0

\* The data_quality literal raises TypeError when it takes len() of a value
\* that has none.
DataQualityRaises(after) ==
    \/ Truthy(after) /\ ~HasLen(after)
    \/ after # JNull /\ ~HasLen(after)

DataQualityGroup(before, after) ==
    JObj([has_before |-> JBool(before # JNull),
          has_after |-> JBool(after # JNull),
          field_count |-> JInt(FieldCount(after)),
          is_complete |-> JBool(IsComplete(after))])

\* email.split("@")[1] if "@" in email else None
EmailDomain(email) ==
    IF In("@", email) THEN JStr(Split(email.s, "@")[2]) ELSE JNull

\* The customer_insights literal raises TypeError when email supports no
\* "in" (None, bool, int), AttributeError when "@" is found in a value
\* that has no split method (list, dict).
CustomerInsightsRaises(email) ==
    \/ ~HasContains(email)
    \/ In("@", email) /\ email.t # "str"

CustomerInsightsGroup(email) ==
    JObj([email_domain |-> EmailDomain(email),
          has_email |-> JBool(Truthy(email)),
          email_length |-> JInt(PyLen(email))])

Accessors ==
    {"get_function_name", "get_function_version", "get_message_id",
     "get_current_message_topic_name", "get_partition_id"}

\* One guard for all the accessors: a missing function name hides the others.
GuardedByFunctionName(ctx, name, fallback) ==
    IF HasAttr(ctx, name) /\ HasAttr(ctx, "get_function_name") THEN ctx[name].v
    ELSE fallback

\* context.<name>() if hasattr(context, <name>) else fallback
Guarded(ctx, name, fallback) ==
    IF HasAttr(ctx, name) THEN ctx[name].v ELSE fallback

\* str(context.get_message_id()) if hasattr(context, 'get_message_id') else None
GuardedMessageId(ctx) ==
    IF HasAttr(ctx, "get_message_id") THEN PyStr(ctx["get_message_id"].v) ELSE JNull

\* The processing_metadata literal raises when an accessor that is there
\* raises.
ProcessingMetadataRaises(ctx) == \E a \in Accessors : ctx[a].c = "raises"

ProcessingMetadataGroup(ctx) ==
    JObj([function_name |-> Guarded(ctx, "get_function_name", JStr(S_cdc_enrichment)),
          function_version |-> Guarded(ctx, "get_function_version", JStr(S_1_0)),
          message_id |-> GuardedMessageId(ctx),
          topic |-> Guarded(ctx, "get_current_message_topic_name", JNull),
          partition_id |-> Guarded(ctx, "get_partition_id", JNull)])

\* enriched = {"original": message, "enrichment": {}}
NewEnriched(msg) == JObj([original |-> msg, enrichment |-> JObj(EmptyDict)])

\* The group stored beside "enrichment" instead of inside it.
AddGroupTopLevel(e, name, group) ==
    [e EXCEPT !.o = (name :> group) @@ @]

\* enriched["enrichment"][name] = group
AddGroup(e, name, group) ==
    [e EXCEPT !.o.enrichment.o = (name :> group) @@ @]

\* json.dumps(enriched, indent=2).encode('utf-8')
Encoded(e) == [kind |-> "bytes", utf8 |-> TRUE, fmt |-> "indent2", doc |-> e]

\* The input re-encoded to bytes on the way out.
ErrorReturnEncoded(inp) == [inp EXCEPT !.kind = "bytes"]

\* return input_bytes
ErrorReturn(inp) == inp

---------------------------------------------------------------------------
(* The inputs of an invocation *)

RECURSIVE StringsUpTo(_)
StringsUpTo(n) ==
    IF n = 0 THEN {<<>>}
    ELSE LET shorter == StringsUpTo(n - 1)
         IN shorter \cup {Append(s, ch) : s \in shorter, ch \in {"a", "@"}}

EmailValues ==
    {JStr(s) : s \in StringsUpTo(MaxEmailLen)} \cup {JNull, JInt(5), JList(<<>>)}

BaseAfter == JObj([id |-> JInt(1), email |-> JStr(<<"a", "@", "a">>)])

AfterAll ==
    {Absent, JNull, JObj(EmptyDict), JObj([id |-> JInt(1)]), JInt(5), JInt(0),
     JStr(<<"a">>), JList(<<>>), JList(<<JStr(Chars("email"))>>)}
    \cup {JObj([email |-> e]) : e \in EmailValues}
    \cup {JObj([id |-> JInt(1), email |-> e]) : e \in EmailValues}

BaseBefore == JObj([status |-> JStr(<<"n">>)])

BeforeAll == {Absent, JNull, BaseBefore, JStr(<<"n">>)}

Opt(k, v) == IF v = Absent THEN EmptyDict ELSE (k :> v)

SnapshotAll ==
    {Absent, JStr(S_true), JStr(<<"T", "r", "u", "e">>), JStr(<<"f">>),
     JBool(TRUE), JInt(1)}

BaseSource == JObj([db |-> JStr(<<"s">>), table |-> JStr(<<"t">>), snapshot |-> JStr(<<"f">>)])

SourceAll ==
    {Absent, JNull, JStr(<<"s">>), JStr(<<>>)}
    \cup {JObj(Opt("db", db) @@ Opt("table", tb) @@ Opt("snapshot", sn)) :
            db \in {Absent, JStr(<<"s">>)}, tb \in {Absent, JStr(<<"t">>)},
            sn \in SnapshotAll}

OpAll ==
    {Absent, JStr(S_c), JStr(S_u), JStr(S_d), JStr(S_r), JStr(<<"x">>),
     JStr(S_unknown), JStr(<<>>), JNull, JInt(1), JBool(TRUE), JList(<<>>),
     JObj(EmptyDict)}

TsAll ==
    {Absent, JNull, JInt(0), JInt(1500), JInt(-1500),
     JInt(MaxEpochSeconds * 1000 + 1), JStr(<<"1">>), JStr(<<>>), JBool(TRUE),
     JBool(FALSE)}

Envelope(o, ts, src, before, after) ==
    JObj(Opt("op", o) @@ Opt("ts_ms", ts) @@ Opt("source", src)
         @@ Opt("before", before) @@ Opt("after", after))

BaseEnvelope == Envelope(JStr(S_u), JInt(1500), BaseSource, BaseBefore, BaseAfter)

\* Every op with every ts_ms, in a bare envelope and in a full one.
EnvOpTs ==
    {Envelope(o, ts, r[1], r[2], r[3]) :
        o \in OpAll, ts \in TsAll,
        r \in {<<Absent, Absent, Absent>>, <<BaseSource, BaseBefore, BaseAfter>>}}

\* Every source.
EnvSource ==
    {Envelope(o, ts, src, Absent, after) :
        o \in {Absent, JStr(S_c)}, ts \in {Absent, JInt(1500)}, src \in SourceAll,
        after \in {Absent, BaseAfter}}

\* Every before with every after.
EnvRows ==
    {Envelope(JStr(S_c), Absent, src, before, after) :
        src \in {Absent, BaseSource}, before \in BeforeAll, after \in AfterAll}

\* JSON texts that are no mapping.
NonEnvelopes == {JInt(5), JNull, JList(<<>>), JStr(<<"a">>)}

Documents == EnvOpTs \cup EnvSource \cup EnvRows \cup NonEnvelopes \cup {Malformed}

FewDocuments ==
    {BaseEnvelope, Envelope(Absent, Absent, Absent, Absent, Absent),
     Envelope(JList(<<>>), Absent, JNull, Absent, Absent), Malformed}

\* A text (str) or its UTF-8 bytes, or bytes that are no UTF-8 at all.
InputsOf(docs) ==
    {[kind |-> k, utf8 |-> TRUE, fmt |-> f, doc |-> d] :
        k \in {"str", "bytes"}, f \in {"compact", "indent2"}, d \in docs}
    \cup {[kind |-> "bytes", utf8 |-> FALSE, fmt |-> "compact", doc |-> Malformed]}

Logger == [t |-> "logger"]

AccessorCaps(vals) == {CapAbsent, CapRaises} \cup {CapReturns(v) : v \in vals}

ContextsAll ==
    [get_function_name : AccessorCaps({JStr(<<"f">>)}),
     get_function_version : AccessorCaps({JStr(<<"2">>)}),
     get_message_id : AccessorCaps({JInt(7), JInt(12), JStr(<<"m">>)}),
     get_current_message_topic_name : AccessorCaps({JStr(<<"t">>)}),
     get_partition_id : AccessorCaps({JInt(3)}),
     get_logger : AccessorCaps({Logger})]

FullContext ==
    [get_function_name |-> CapReturns(JStr(<<"f">>)),
     get_function_version |-> CapReturns(JStr(<<"2">>)),
     get_message_id |-> CapReturns(JInt(12)),
     get_current_message_topic_name |-> CapReturns(JStr(<<"t">>)),
     get_partition_id |-> CapReturns(JInt(3)),
     get_logger |-> CapReturns(Logger)]

BareContext ==
    [get_function_name |-> CapAbsent,
     get_function_version |-> CapAbsent,
     get_message_id |-> CapAbsent,
     get_current_message_topic_name |-> CapAbsent,
     get_partition_id |-> CapAbsent,
     get_logger |-> CapReturns(Logger)]

ContextsFew ==
    {FullContext, BareContext, [FullContext EXCEPT !.get_logger = CapAbsent]}

---------------------------------------------------------------------------
(* The invocation *)

NoException == [type |-> "none"]
NoResult == [kind |-> "none"]

Init ==
    /\ \/ input \in InputsOf(Documents) /\ context \in ContextsFew
       \/ input \in InputsOf(FewDocuments) /\ context \in ContextsAll
    /\ pc = "parse"
    /\ message = Unbound
    /\ enriched = Unbound
    /\ op = Unbound
    /\ source = Unbound
    /\ exc = NoException
    /\ log = <<>>
    /\ result = NoResult

\* An exception raised inside the try block of line 20 transfers control to
\* the handler of line 104.
Raise(type, at) ==
    /\ pc' = "except"
    /\ exc' = [type |-> type, at |-> at]

\* Lines 23-32: decode and parse the input, start the enriched record.
Parse ==
    /\ pc = "parse"
    /\ UNCHANGED <<input, context, op, source, log, result>>
    /\ IF input.kind = "bytes" /\ ~input.utf8
       THEN Raise("UnicodeDecodeError", "parse") /\ UNCHANGED <<message, enriched>>
       ELSE IF input.doc = Malformed
       THEN Raise("JSONDecodeError", "parse") /\ UNCHANGED <<message, enriched>>
       ELSE /\ message' = input.doc
            /\ enriched' = NewEnriched(input.doc)
            /\ pc' = "operation"
            /\ UNCHANGED exc

\* Lines 34-46: the operation group.
Operation ==
    /\ pc = "operation"
    /\ UNCHANGED <<input, context, message, source, log, result>>
    /\ IF ~HasGet(message)
       THEN Raise("AttributeError", "operation") /\ UNCHANGED <<op, enriched>>
       ELSE LET o == DictGet(message, "op", JStr(S_unknown))
            IN /\ op' = o
               /\ IF ~Hashable(o)
                  THEN Raise("TypeError", "operation") /\ UNCHANGED enriched
                  ELSE /\ enriched' = AddGroup(enriched, "operation", OperationGroup(o))
                       /\ pc' = "timestamps"
                       /\ UNCHANGED exc

\* Lines 48-55: the timestamps group.
Timestamps ==
    /\ pc = "timestamps"
    /\ UNCHANGED <<input, context, message, op, source, log, result>>
    /\ LET ts_ms == DictGet(message, "ts_ms", JNull)
       IN IF ~TimestampsGuard(ts_ms)
          THEN pc' = "source_metadata" /\ UNCHANGED <<enriched, exc>>
          ELSE IF ~IsNumber(ts_ms)
          THEN Raise("TypeError", "timestamps") /\ UNCHANGED enriched
          ELSE IF ~FromTimestampOk(NumValue(ts_ms))
          THEN Raise("ValueError", "timestamps") /\ UNCHANGED enriched
          ELSE \E now \in 0..MaxClock :
                  /\ enriched' = AddGroup(enriched, "timestamps", TimestampsGroup(ts_ms, now))
                  /\ pc' = "source_metadata"
                  /\ UNCHANGED exc

\* Lines 57-67: the source_metadata group.
SourceMetadata ==
    /\ pc = "source_metadata"
    /\ UNCHANGED <<input, context, message, op, log, result>>
    /\ LET src == DictGet(message, "source", JObj(EmptyDict))
       IN /\ source' = src
          /\ IF ~Truthy(src)
             THEN pc' = "data_quality" /\ UNCHANGED <<enriched, exc>>
             ELSE IF ~HasGet(src)
             THEN Raise("AttributeError", "source_metadata") /\ UNCHANGED enriched
             ELSE /\ enriched' = AddGroup(enriched, "source_metadata", SourceMetadataGroup(src))
                  /\ pc' = "data_quality"
                  /\ UNCHANGED exc

\* Lines 69-78: the data_quality group.
DataQuality ==
    /\ pc = "data_quality"
    /\ UNCHANGED <<input, context, message, op, source, log, result>>
    /\ LET after == DictGet(message, "after", JNull)
           before == DictGet(message, "before", JNull)
       IN IF DataQualityRaises(after)
          THEN Raise("TypeError", "data_quality") /\ UNCHANGED enriched
          ELSE /\ enriched' = AddGroup(enriched, "data_quality", DataQualityGroup(before, after))
               /\ pc' = "customer_insights"
               /\ UNCHANGED exc

\* Lines 80-87: the customer_insights group.
CustomerInsights ==
    /\ pc = "customer_insights"
    /\ UNCHANGED <<input, context, message, op, source, log, result>>
    /\ LET after == DictGet(message, "after", JNull)
       IN IF ~(Truthy(after) /\ In("email", after))
          THEN pc' = "processing_metadata" /\ UNCHANGED <<enriched, exc>>
          ELSE IF ~HasGet(after)
          THEN Raise("AttributeError", "customer_insights") /\ UNCHANGED enriched
          ELSE LET email == DictGet(after, "email", JStr(<<>>))
               IN IF CustomerInsightsRaises(email)
                  THEN Raise(IF HasContains(email) THEN "AttributeError" ELSE "TypeError",
                             "customer_insights")
                       /\ UNCHANGED enriched
                  ELSE /\ enriched' = AddGroup(enriched, "customer_insights",
                                               CustomerInsightsGroup(email))
                       /\ pc' = "processing_metadata"
                       /\ UNCHANGED exc

\* Lines 89-96: the processing_metadata group.
ProcessingMetadata ==
    /\ pc = "processing_metadata"
    /\ UNCHANGED <<input, context, message, op, source, log, result>>
    /\ IF ProcessingMetadataRaises(context)
       THEN Raise("Exception", "processing_metadata") /\ UNCHANGED enriched
       ELSE /\ enriched' = AddGroup(enriched, "processing_metadata",
                                    ProcessingMetadataGroup(context))
            /\ pc' = "output"
            /\ UNCHANGED exc

\* Lines 98-102: serialise, log the info line, return the encoded record.
\* context.get_logger() is evaluated before the argument of info().
Output ==
    /\ pc = "output"
    /\ UNCHANGED <<input, context, message, enriched, op, source>>
    /\ IF context.get_logger.c = "absent"
       THEN Raise("AttributeError", "output") /\ UNCHANGED <<log, result>>
       ELSE IF context.get_logger.c = "raises"
       THEN Raise("Exception", "output") /\ UNCHANGED <<log, result>>
       ELSE IF ~HasGet(source)
       THEN Raise("AttributeError", "output") /\ UNCHANGED <<log, result>>
       ELSE /\ log' = Append(log, [level |-> "info",
                                   table |-> DictGet(source, "table", JStr(S_unknown)),
                                   op |-> op])
            /\ result' = [kind |-> "return", value |-> Encoded(enriched)]
            /\ pc' = "done"
            /\ UNCHANGED exc

\* Lines 104-107: the handler logs the error and returns the input.  It runs
\* outside the try block: what it raises leaves process.
Except ==
    /\ pc = "except"
    /\ UNCHANGED <<input, context, message, enriched, op, source, exc>>
    /\ pc' = "done"
    /\ IF context.get_logger.c = "absent"
       THEN result' = [kind |-> "raise", type |-> "AttributeError"] /\ UNCHANGED log
       ELSE IF context.get_logger.c = "raises"
       THEN result' = [kind |-> "raise", type |-> "Exception"] /\ UNCHANGED log
       ELSE /\ log' = Append(log, [level |-> "error", type |-> exc.type])
            /\ result' = [kind |-> "return", value |-> ErrorReturn(input)]

Next ==
    \/ Parse
    \/ Operation
    \/ Timestamps
    \/ SourceMetadata
    \/ DataQuality
    \/ CustomerInsights
    \/ ProcessingMetadata
    \/ Output
    \/ Except

Spec == Init /\ [][Next]_vars

---------------------------------------------------------------------------
(* Vocabulary of the properties *)

Done == pc = "done"

\* process returned the encoded enriched record (the handler did not run).
EnrichedOutcome == Done /\ result.kind = "return" /\ exc = NoException

InfoCalls == Cardinality({i \in 1..Len(log) : log[i].level = "info"})
ErrorCalls == Cardinality({i \in 1..Len(log) : log[i].level = "error"})

\* The input is not UTF-8, or not JSON.
InvalidInput == (input.kind = "bytes" /\ ~input.utf8) \/ input.doc = Malformed

\* The input is the JSON text of a mapping.
IsEnvelope == ~InvalidInput /\ input.doc.t = "obj"

\* The value of a key of the input envelope, Absent when it has none.
Field(k) == IF k \in DOMAIN input.doc.o THEN input.doc.o[k] ELSE Absent

\* The groups of the record process returned.
ReturnedEnrichment == result.value.doc.o.enrichment.o

\* An envelope typed as the data model types it: op a string, ts_ms an
\* integer the platform can convert, source a mapping, before and after
\* mappings or null, and after.email a string.
WellTyped ==
    /\ IsEnvelope
    /\ Field("op") = Absent \/ Field("op").t = "str"
    /\ Field("ts_ms") = Absent
          \/ (Field("ts_ms").t = "int" /\ FromTimestampOk(Field("ts_ms").n))
    /\ Field("source") = Absent \/ Field("source").t = "obj"
    /\ Field("before") = Absent \/ Field("before").t \in {"null", "obj"}
    /\ Field("after") = Absent \/ Field("after").t \in {"null", "obj"}
    /\ (Field("after") # Absent /\ Field("after").t = "obj"
            /\ "email" \in DOMAIN Field("after").o)
          => Field("after").o.email.t = "str"

\* The context has a logger and none of its accessors raises.
ContextWorks ==
    /\ context.get_logger.c = "returns"
    /\ \A a \in Accessors : context[a].c # "raises"

---------------------------------------------------------------------------
(* C1 *)

\* C1: process never propagates an exception to its caller, whatever the
\* input and whichever capabilities of the context are absent or raise:
\* every finished invocation has returned a value.
C1_NeverRaises == Done => result.kind = "return"

---------------------------------------------------------------------------
(* C2 *)

\* C2: when the input is not valid JSON (or bytes that are not valid UTF-8)
\* and the context has a logger, process returns the original input
\* unmodified, after exactly one call of the logger's error method and no
\* call of its info method.
C2_MalformedPassThrough ==
    (Done /\ InvalidInput /\ context.get_logger.c = "returns")
        => /\ result = [kind |-> "return", value |-> input]
           /\ ErrorCalls = 1
           /\ InfoCalls = 0

C2_Witness ==
    /\ Done
    /\ input.kind = "str"
    /\ input.doc = Malformed
    /\ context.get_logger.c = "returns"
    /\ result.kind = "return"
    /\ Len(log) = 1

---------------------------------------------------------------------------
(* C3 *)

EnrichedSuccess ==
    /\ result.kind = "return"
    /\ result.value.kind = "bytes"
    /\ result.value.utf8
    /\ result.value.doc.t = "obj"
    /\ DOMAIN result.value.doc.o = {"original", "enrichment"}
    /\ InfoCalls = 1
    /\ ErrorCalls = 0

PassThroughOnFailure ==
    /\ result.kind = "return"
    /\ result.value = input
    /\ ErrorCalls >= 1

\* C3: every invocation ends in exactly one of two outcomes, enriched-success
\* (the encoded record with the keys original and enrichment, one info line,
\* no error line) or pass-through-on-failure (the input verbatim, with an
\* error line).
C3_TwoOutcomes ==
    Done => /\ EnrichedSuccess \/ PassThroughOnFailure
            /\ ~(EnrichedSuccess /\ PassThroughOnFailure)

---------------------------------------------------------------------------
(* C4 *)

\* C4: a record process returns has exactly the two top-level keys original
\* and enrichment and its original equals the parsed input, and every
\* well-typed envelope given with a working context ends in such a record.
C4_OriginalPreserved ==
    Done => /\ EnrichedOutcome
               => /\ result.value.doc.t = "obj"
                  /\ DOMAIN result.value.doc.o = {"original", "enrichment"}
                  /\ result.value.doc.o.original = input.doc
            /\ (WellTyped /\ ContextWorks) => EnrichedOutcome

C4_Witness ==
    /\ EnrichedOutcome
    /\ input.doc = BaseEnvelope
    /\ DOMAIN ReturnedEnrichment =
          {"operation", "timestamps", "source_metadata", "data_quality",
           "customer_insights", "processing_metadata"}

---------------------------------------------------------------------------
(* C5 *)

\* The text str() gives for the message ids of the contexts.
Stringified(v) ==
    CASE v = JInt(7) -> JStr(<<"7">>)
      [] v = JInt(12) -> JStr(<<"1", "2">>)
      [] v = JStr(<<"m">>) -> JStr(<<"m">>)

\* What processing_metadata is to report for one accessor: the fallback when
\* the context lacks it, its value otherwise.
Reported(a, fallback) ==
    IF context[a].c = "absent" THEN fallback ELSE context[a].v

\* C5: for a well-typed envelope and a context with a logger that lacks any
\* subset of the five accessors (the others returning), process returns an
\* enriched record whose processing_metadata holds, accessor by accessor, the
\* fallback when the accessor is missing and its value (the message id
\* stringified) when it is there.
C5_MetadataFallbacks ==
    (Done /\ WellTyped /\ ContextWorks)
        => /\ EnrichedOutcome
           /\ LET pm == ReturnedEnrichment["processing_metadata"].o
              IN /\ pm.function_name = Reported("get_function_name", JStr(S_cdc_enrichment))
                 /\ pm.function_version = Reported("get_function_version", JStr(S_1_0))
                 /\ pm.message_id =
                       IF context.get_message_id.c = "absent" THEN JNull
                       ELSE Stringified(context.get_message_id.v)
                 /\ pm.topic = Reported("get_current_message_topic_name", JNull)
                 /\ pm.partition_id = Reported("get_partition_id", JNull)

C5_Witness ==
    /\ EnrichedOutcome
    /\ context.get_function_name.c = "absent"
    /\ context.get_function_version.c = "returns"
    /\ context.get_message_id = CapReturns(JInt(12))
    /\ context.get_current_message_topic_name.c = "returns"
    /\ context.get_partition_id.c = "absent"
    /\ ReturnedEnrichment["processing_metadata"].o.message_id = JStr(<<"1", "2">>)

---------------------------------------------------------------------------
(* C6 *)

\* The fixed table of the operation codes.
TableLabel(o) ==
    CASE o = JStr(S_c) -> S_CREATE
      [] o = JStr(S_u) -> S_UPDATE
      [] o = JStr(S_d) -> S_DELETE
      [] o = JStr(S_r) -> S_READ
      [] OTHER -> S_UNKNOWN

\* C6: for every envelope the operation group of the output follows the
\* table: c, u, d give CREATE, UPDATE, DELETE with is_mutation true, r gives
\* READ with is_mutation false, and any other op, of any JSON type or absent,
\* gives UNKNOWN with is_mutation false; code is the op value, "unknown" when
\* absent.  Stated of every invocation with a logger in which no later step
\* failed.
C6_OperationTable ==
    (Done /\ IsEnvelope /\ context.get_logger.c = "returns"
          /\ (exc = NoException \/ exc.at = "operation"))
        => /\ EnrichedOutcome
           /\ LET o == IF Field("op") = Absent THEN JStr(S_unknown) ELSE Field("op")
                  g == ReturnedEnrichment["operation"].o
              IN /\ g.code = o
                 /\ g.label = JStr(TableLabel(o))
                 /\ g.is_mutation = JBool(o \in {JStr(S_c), JStr(S_u), JStr(S_d)})

---------------------------------------------------------------------------
(* C7 *)

\* Everything after the first "@" of a string that holds one.
AfterFirstAt(s) ==
    LET i == CHOOSE j \in 1..Len(s) : s[j] = "@" /\ \A k \in 1..(j - 1) : s[k] # "@"
    IN SubSeq(s, i + 1, Len(s))

\* C7: when after.email is a string, email_domain is everything after its
\* first "@" (null when it holds none), email_length its length and has_email
\* whether it is non-empty.
C7_EmailDomain ==
    (EnrichedOutcome /\ "customer_insights" \in DOMAIN ReturnedEnrichment
        /\ Field("after").o.email.t = "str")
        => LET email == Field("after").o.email.s
               g == ReturnedEnrichment["customer_insights"].o
           IN /\ g.email_domain =
                    IF \E i \in 1..Len(email) : email[i] = "@"
                    THEN JStr(AfterFirstAt(email)) ELSE JNull
              /\ g.email_length = JInt(Len(email))
              /\ g.has_email = JBool(Len(email) > 0)

---------------------------------------------------------------------------
(* C8 *)

\* The source of the input envelope is a non-empty mapping.
SourceIsNonEmptyMapping ==
    /\ IsEnvelope
    /\ Field("source") # Absent
    /\ Field("source").t = "obj"
    /\ DOMAIN Field("source").o # {}

\* C8: when source is a non-empty mapping, the source_metadata step never
\* fails, a returned record reports is_snapshot true exactly when
\* source.snapshot is the string "true", and a well-typed envelope with a
\* working context is enriched whatever the snapshot value is.
C8_IsSnapshotExact ==
    (Done /\ SourceIsNonEmptyMapping)
        => /\ exc = NoException \/ exc.at # "source_metadata"
           /\ EnrichedOutcome
                 => ReturnedEnrichment["source_metadata"].o.is_snapshot =
                       JBool(/\ "snapshot" \in DOMAIN Field("source").o
                             /\ Field("source").o.snapshot = JStr(S_true))
           /\ (WellTyped /\ ContextWorks) => EnrichedOutcome

C8_Witness ==
    /\ EnrichedOutcome
    /\ SourceIsNonEmptyMapping
    /\ "snapshot" \in DOMAIN Field("source").o
    /\ Field("source").o.snapshot = JBool(TRUE)
    /\ ReturnedEnrichment["source_metadata"].o.is_snapshot = JBool(FALSE)

---------------------------------------------------------------------------
(* C9 *)

\* after of the input envelope is absent, null or a mapping.
RowsAreMappings ==
    /\ IsEnvelope
    /\ Field("after") = Absent \/ Field("after").t \in {"null", "obj"}

\* C9: for an envelope whose after is absent, null or a mapping the
\* data_quality step never fails, and a returned record reports field_count
\* as the number of keys of after (0 without one), is_complete as after
\* having at least one key, has_before and has_after as before and after
\* being present and non-null.
C9_DataQuality ==
    (Done /\ RowsAreMappings)
        => /\ exc = NoException \/ exc.at # "data_quality"
           /\ EnrichedOutcome
                 => LET g == ReturnedEnrichment["data_quality"].o
                        after == Field("after")
                        before == Field("before")
                        keys == IF after \in {Absent, JNull} THEN {} ELSE DOMAIN after.o
                    IN /\ g.field_count = JInt(Cardinality(keys))
                       /\ g.is_complete = JBool(keys # {})
                       /\ g.has_after = JBool(after \notin {Absent, JNull})
                       /\ g.has_before = JBool(before \notin {Absent, JNull})

C9_Witness ==
    /\ EnrichedOutcome
    /\ RowsAreMappings
    /\ Field("after") = JObj(EmptyDict)
    /\ Field("before") = BaseBefore
    /\ ReturnedEnrichment["data_quality"].o.is_complete = JBool(FALSE)
    /\ ReturnedEnrichment["data_quality"].o.has_after = JBool(TRUE)

---------------------------------------------------------------------------
(* C10 *)

\* The values Python counts as false.
Falsy ==
    {JNull, JBool(FALSE), JInt(0), JStr(<<>>), JList(<<>>), JObj(EmptyDict)}

\* C10: a returned record holds the timestamps group exactly when ts_ms is
\* present and truthy; with ts_ms absent, null or 0 the timestamps step never
\* fails, and a well-typed envelope with a working context is still enriched.
C10_TimestampsGroup ==
    (Done /\ IsEnvelope)
        => /\ EnrichedOutcome
                 => ("timestamps" \in DOMAIN ReturnedEnrichment
                        <=> Field("ts_ms") \notin (Falsy \cup {Absent}))
           /\ Field("ts_ms") \in {Absent, JNull, JInt(0)}
                 => /\ exc = NoException \/ exc.at # "timestamps"
                    /\ (WellTyped /\ ContextWorks) => EnrichedOutcome

C10_Witness ==
    /\ EnrichedOutcome
    /\ Field("ts_ms") = JInt(0)
    /\ "timestamps" \notin DOMAIN ReturnedEnrichment
    /\ "operation" \in DOMAIN ReturnedEnrichment

====
